---- MODULE Spec2Model ----
(***************************************************************************)
(* A model of the BLAKE3 hasher of src/src/blake3.ts: the codec, the       *)
(* compression function, the Blake3Hasher class (constructor, update,      *)
(* finalize and their private helpers) and the exported one-shot           *)
(* functions.                                                              *)
(*                                                                         *)
(* A 32-bit word is a pair <<hi, lo>> of 16-bit halves, a byte an integer  *)
(* in 0..255.  compress is translated bit for bit.  Hashing kilobytes      *)
(* through it is too slow to explore, so the state machine can run in two  *)
(* modes, fixed at Init by the variable exact:                             *)
(*   exact = TRUE   every compression is computed (known-answer checks);   *)
(*   exact = FALSE  a compression returns eight opaque words that name the *)
(*                  first call of the log `calls` that read the same state *)
(*                  and block: two results are equal exactly when the two  *)
(*                  calls read the same.  An opaque word is                *)
(*                  <<-id, i>>, an opaque byte a negative integer.         *)
(***************************************************************************)
EXTENDS Integers, Sequences, FiniteSets, TLC

VARIABLES
  exact,     \* TRUE: compressions are computed; FALSE: they are opaque
  hasher,    \* the Blake3Hasher object: its fields, and whether it exists
  calls,     \* every compress call made so far, in order, with its arguments
  history,   \* the update and finalize calls made on hasher, in order
  last,      \* the last operation: its name, arguments, outcome and result
  pair       \* two hashers side by side and the arrays they own, or none

vars == <<exact, hasher, calls, history, last, pair>>

(***************************************************************************)
(* Constants of src/src/blake3.ts                                          *)
(***************************************************************************)
Half == 2 ^ 16

W(hi, lo) == <<hi, lo>>

IV == << W(27145, 58983), W(47975, 44677), W(15470, 62322), W(42319, 62778),
         W(20750, 21119), W(39685, 26764), W(8067, 55723), W(23520, 52505) >>

MSG_PERMUTATION == <<2, 6, 3, 10, 7, 0, 4, 13, 1, 11, 12, 5, 9, 14, 15, 8>>

CHUNK_LEN == 1024
BLOCK_LEN == 64
KEY_LEN == 32
OUT_LEN == 32

CHUNK_START == 1
CHUNK_END == 2
PARENT == 4
ROOT == 8
KEYED_HASH == 16
DERIVE_KEY_CONTEXT == 32
DERIVE_KEY_MATERIAL == 64

Min(a, b) == IF a < b THEN a ELSE b

\* TLC computes LET definitions and operator arguments on demand, and a long
\* chain of pending results overflows its stack: Strict(<<v1, ..., vn>>, e)
\* computes v1, ..., vn in this order, then e
Strict(v, e) == IF Len(v) >= 0 THEN e ELSE e

\* a typed array filled element by element: the function f on 1..n, with every
\* element computed
Array(f) == SubSeq(f, 1, Len(f))

(***************************************************************************)
(* Bit operations on flags (7 bits) and on 16-bit halves                   *)
(***************************************************************************)
RECURSIVE BitOr(_, _)
BitOr(a, b) ==
  IF a = 0 THEN b
  ELSE IF b = 0 THEN a
  ELSE (IF a % 2 = 1 \/ b % 2 = 1 THEN 1 ELSE 0) + 2 * BitOr(a \div 2, b \div 2)

RECURSIVE BitAnd(_, _)
BitAnd(a, b) ==
  IF a = 0 \/ b = 0 THEN 0
  ELSE (IF a % 2 = 1 /\ b % 2 = 1 THEN 1 ELSE 0) + 2 * BitAnd(a \div 2, b \div 2)

\* flags &= ~bit
BitClear(a, bit) == a - BitAnd(a, bit)

HasFlag(flags, bit) == BitAnd(flags, bit) = bit

RECURSIVE xorBits(_, _, _)
xorBits(x, y, k) ==
  IF k = 0 THEN 0
  ELSE ((x + y) % 2) + 2 * xorBits(x \div 2, y \div 2, k - 1)

\* x ^ y on 4-bit digits, tabulated
XorTable == [n \in 0..255 |-> xorBits(n \div 16, n % 16, 4)]

xor16(x, y) ==
  XorTable[((x \div 4096) * 16) + (y \div 4096)] * 4096
  + XorTable[(((x \div 256) % 16) * 16) + ((y \div 256) % 16)] * 256
  + XorTable[(((x \div 16) % 16) * 16) + ((y \div 16) % 16)] * 16
  + XorTable[((x % 16) * 16) + (y % 16)]

xor32(x, y) == W(xor16(x[1], y[1]), xor16(x[2], y[2]))

\* (x + y) >>> 0
add32(x, y) ==
  LET lo == x[2] + y[2]
  IN  W((x[1] + y[1] + (lo \div Half)) % Half, lo % Half)

\* (x >>> n) | (x << (32 - n)), stored back into a Uint32Array
rotr32(x, n) ==
  IF n = 16 THEN W(x[2], x[1])
  ELSE LET p == 2 ^ n
           q == 2 ^ (16 - n)
       IN  W((x[1] \div p) + (x[2] % p) * q, (x[2] \div p) + (x[1] % p) * q)

\* a small non-negative number as a word
Word(n) == W((n \div Half) % Half, n % Half)

ZeroWord == W(0, 0)

(***************************************************************************)
(* g and compress                                                          *)
(***************************************************************************)
\* state indices are 0-based in the source, 1-based here.
\* state[a] = (state[a] + state[b] + m) >>> 0
Mix(state, a, b, m) ==
  [state EXCEPT ![a + 1] = add32(add32(state[a + 1], state[b + 1]), m)]

\* state[d] = rotr32(state[d] ^ state[a], n)
XorRot(state, d, a, n) ==
  [state EXCEPT ![d + 1] = rotr32(xor32(state[d + 1], state[a + 1]), n)]

\* state[c] = (state[c] + state[d]) >>> 0
Add(state, c, d) == [state EXCEPT ![c + 1] = add32(state[c + 1], state[d + 1])]

\* the eight statements of g, innermost first
g(state, a, b, c, d, mx, my) ==
  Strict(<<state>>,
         XorRot(Add(XorRot(Mix(XorRot(Add(XorRot(Mix(state, a, b, mx),
                                                 d, a, 16), c, d), b, c, 12),
                               a, b, my), d, a, 8), c, d), b, c, 7))

\* blockWords[MSG_PERMUTATION[k]]
MsgWord(blockWords, k) == blockWords[MSG_PERMUTATION[k + 1] + 1]

\* the column round
Columns(state, blockWords) ==
  g(g(g(g(state, 0, 4, 8, 12, MsgWord(blockWords, 0), MsgWord(blockWords, 1)),
          1, 5, 9, 13, MsgWord(blockWords, 2), MsgWord(blockWords, 3)),
        2, 6, 10, 14, MsgWord(blockWords, 4), MsgWord(blockWords, 5)),
      3, 7, 11, 15, MsgWord(blockWords, 6), MsgWord(blockWords, 7))

\* the diagonal round
Diagonals(state, blockWords) ==
  g(g(g(g(state, 0, 5, 10, 15, MsgWord(blockWords, 8), MsgWord(blockWords, 9)),
          1, 6, 11, 12, MsgWord(blockWords, 10), MsgWord(blockWords, 11)),
        2, 7, 8, 13, MsgWord(blockWords, 12), MsgWord(blockWords, 13)),
      3, 4, 9, 14, MsgWord(blockWords, 14), MsgWord(blockWords, 15))

\* one iteration of the round loop
Round(state, blockWords) == Diagonals(Columns(state, blockWords), blockWords)

\* for (let round = 0; round < 7; round++): the same blockWords every round
RECURSIVE Rounds(_, _, _)
Rounds(state, blockWords, round) ==
  IF round = 7 THEN state
  ELSE Strict(<<state>>, Rounds(Round(state, blockWords), blockWords, round + 1))

\* state.set(chainingValue, 0); state.set(IV, 4); state[12..15] = ...
InitialState(chainingValue, counter, blockLen, flags) ==
  Array([i \in 1..16 |->
           IF i >= 5 /\ i <= 12 THEN IV[i - 4]
           ELSE IF i <= 4 THEN chainingValue[i]
           ELSE IF i = 13 THEN Word(counter)
           ELSE IF i = 14 THEN Word((counter \div Half) \div Half)
           ELSE IF i = 15 THEN Word(blockLen)
           ELSE Word(flags)])

\* the finalisation loop; the function returns state.slice(0, 8)
Finalise(state) == Array([i \in 1..8 |-> xor32(state[i], state[i + 8])])

compress(chainingValue, blockWords, counter, blockLen, flags) ==
  Finalise(Rounds(InitialState(chainingValue, counter, blockLen, flags),
                  blockWords, 0))

(***************************************************************************)
(* Codec                                                                   *)
(***************************************************************************)
\* an opaque word is W(-id, i): word i (0..7) of the result of call id; its
\* four bytes are the negative numbers below
OpaqueByte(id, i, j) == 0 - ((((id * 8) + i) * 4) + j + 1)

OpaqueWordOf(b) ==
  LET v == (0 - b) - 1
  IN  W(0 - ((v \div 4) \div 8), (v \div 4) % 8)

\* not a word of any call: bytes of different opaque words put together
UnknownWord == W(-1, -1)

\* bytes[k] of a Uint8Array in a bitwise expression: undefined reads as 0
ByteAt(bytes, k) == IF k + 1 <= Len(bytes) THEN bytes[k + 1] ELSE 0

\* always 16 words, whatever the length of bytes
wordsFromBytes(bytes) ==
  Array([i \in 1..16 |->
           LET offset == (i - 1) * 4
               b0 == ByteAt(bytes, offset)
               b1 == ByteAt(bytes, offset + 1)
               b2 == ByteAt(bytes, offset + 2)
               b3 == ByteAt(bytes, offset + 3)
           IN  IF b0 >= 0 /\ b1 >= 0 /\ b2 >= 0 /\ b3 >= 0
               THEN W(b2 + 256 * b3, b0 + 256 * b1)
               ELSE IF b0 < 0 /\ ((0 - b0) - 1) % 4 = 0
                       /\ b1 = b0 - 1 /\ b2 = b0 - 2 /\ b3 = b0 - 3
               THEN OpaqueWordOf(b0)
               ELSE UnknownWord])

wordsToBytes(words) ==
  Array([k \in 1..(Len(words) * 4) |->
           LET w == words[((k - 1) \div 4) + 1]
               j == (k - 1) % 4
           IN  IF w[1] < 0 THEN OpaqueByte(0 - w[1], w[2], j)
               ELSE IF j = 0 THEN w[2] % 256
               ELSE IF j = 1 THEN w[2] \div 256
               ELSE IF j = 2 THEN w[1] % 256
               ELSE w[1] \div 256])

first8Words == SubSeq(IV, 1, 8)

\* array.slice(from, to) of a sequence, 0-based and clamped like JavaScript's
Slice(a, from, to) == SubSeq(a, from + 1, Min(to, Len(a)))

\* target.set(source, at): overwrite target from 0-based index at
SetAt(target, source, at) ==
  Array([k \in 1..Len(target) |->
           IF k > at /\ k <= at + Len(source) THEN source[k - at] ELSE target[k]])

Zeros(n) == Array([k \in 1..n |-> 0])

ZeroWords(n) == Array([k \in 1..n |-> ZeroWord])

(***************************************************************************)
(* A compress call: logged, then computed or named                         *)
(***************************************************************************)
\* a logged call: the five arguments, and the state compress builds of them
\* before the first round
CallRecord(chainingValue, blockWords, counter, blockLen, flags) ==
  [chainingValue |-> SubSeq(chainingValue, 1, 8), blockWords |-> blockWords,
   counter |-> counter, blockLen |-> blockLen, flags |-> flags,
   state |-> InitialState(chainingValue, counter, blockLen, flags)]

\* two calls read the same: compress reads its arguments through the initial
\* state and the block words only
SameReads(c, d) == c.state = d.state /\ c.blockWords = d.blockWords

\* the number of the first call of the log that read the same as call c, or
\* the number c gets when it is appended
FirstSame(log, c) ==
  LET same == {k \in 1..Len(log) : SameReads(log[k], c)}
  IN  IF same = {} THEN Len(log) + 1
      ELSE CHOOSE k \in same : \A j \in same : k <= j

\* the result of call c after the calls of the log, in opaque mode
Named(id) == Array([i \in 1..8 |-> W(0 - id, i - 1)])

OpaqueResult(log, c) == Named(FirstSame(log, c))

\* compress(...) called with the log so far: the log with the call added, and
\* the eight words returned
Invoke(log, chainingValue, blockWords, counter, blockLen, flags) ==
  [calls |-> Append(log, CallRecord(chainingValue, blockWords, counter,
                                    blockLen, flags)),
   value |-> IF exact
             THEN compress(chainingValue, blockWords, counter, blockLen, flags)
             ELSE OpaqueResult(log, CallRecord(chainingValue, blockWords,
                                               counter, blockLen, flags))]

(***************************************************************************)
(* class Blake3Hasher.  `this` is a record of the object's fields plus     *)
(* calls, the log of compress calls, which every method threads through.   *)
(* r is what a compress call leaves: [calls |-> the log, value |-> the     *)
(* words returned].                                                        *)
(***************************************************************************)
NoKey == [present |-> FALSE, bytes |-> <<>>]

Key(bytes) == [present |-> TRUE, bytes |-> bytes]

\* the constructor with `if (key && key.length)`: an empty key counts as none
constructorEmptyKeyAsNone(key, flags, log) ==
  IF key.present /\ Len(key.bytes) > 0 /\ Len(key.bytes) # KEY_LEN
  THEN [ok |-> FALSE, error |-> "Key must be 32 bytes", calls |-> log]
  ELSE [ok |-> TRUE, error |-> "", calls |-> log,
        this |-> [chainingValue |-> IF key.present /\ Len(key.bytes) > 0
                                    THEN wordsFromBytes(Slice(key.bytes, 0, KEY_LEN))
                                    ELSE first8Words,
                  flags |-> IF key.present /\ Len(key.bytes) > 0
                            THEN BitOr(flags, KEYED_HASH) ELSE flags,
                  chunkCounter |-> 0,
                  block |-> Zeros(BLOCK_LEN),
                  blockLen |-> 0,
                  stack |-> <<>>,
                  stackLen |-> 0,
                  calls |-> log]]

\* new Blake3Hasher(key, flags): the object, or the error thrown.  `if (key)`
\* holds for every Uint8Array, an empty one too
constructor(key, flags, log) ==
  IF key.present /\ Len(key.bytes) # KEY_LEN
  THEN [ok |-> FALSE, error |-> "Key must be 32 bytes", calls |-> log]
  ELSE [ok |-> TRUE, error |-> "", calls |-> log,
        this |-> [chainingValue |-> IF key.present
                                    THEN wordsFromBytes(Slice(key.bytes, 0, KEY_LEN))
                                    ELSE first8Words,
                  flags |-> IF key.present THEN BitOr(flags, KEYED_HASH) ELSE flags,
                  chunkCounter |-> 0,
                  block |-> Zeros(BLOCK_LEN),
                  blockLen |-> 0,
                  stack |-> <<>>,
                  stackLen |-> 0,
                  calls |-> log]]

\* this.chainingValue = newCV
SetCV(this, r) ==
  Strict(<<r>>,
         [this EXCEPT !.chainingValue = r.value, !.calls = r.calls])

compressBlock(this) ==
  SetCV(this,
        Invoke(this.calls, this.chainingValue, wordsFromBytes(this.block),
               this.chunkCounter, this.blockLen,
               BitOr(IF this.blockLen = BLOCK_LEN THEN this.flags
                     ELSE BitOr(this.flags, CHUNK_END),
                     IF this.blockLen = BLOCK_LEN THEN 0 ELSE CHUNK_END)))

\* getLevel(index): the trailing zero bits of index + 1
RECURSIVE TrailingZeros(_)
TrailingZeros(pos) ==
  IF pos > 0 /\ pos % 2 = 0 THEN 1 + TrailingZeros(pos \div 2) ELSE 0

getLevel(index) == TrailingZeros(index + 1)

\* parentOutput with `const flags = PARENT`: the mode flags are left out
parentOutputWithoutMode(this, left, right) ==
  Invoke(this.calls, Slice(this.chainingValue, 0, 8),
         SetAt(SetAt(ZeroWords(16), left, 0), right, 8), 0, BLOCK_LEN, PARENT)

\* parentOutput with the flags of the chunk's last block left on
parentOutputAsChunkEnd(this, left, right) ==
  Invoke(this.calls, Slice(this.chainingValue, 0, 8),
         SetAt(SetAt(ZeroWords(16), left, 0), right, 8), 0, BLOCK_LEN,
         BitOr(BitOr(this.flags, CHUNK_END), PARENT))

\* the call parentOutput(left, right) makes: its log and the parent CV
parentOutput(this, left, right) ==
  Invoke(this.calls, Slice(this.chainingValue, 0, 8),
         SetAt(SetAt(ZeroWords(16), left, 0), right, 8), 0, BLOCK_LEN,
         BitOr(this.flags, PARENT))

\* stack.pop(); stack.pop(); stack.push(parentCV); stackLen--
Merged(this, r) ==
  Strict(<<r>>,
         [this EXCEPT !.stack = Append(SubSeq(@, 1, Len(@) - 2), r.value),
                      !.stackLen = @ - 1,
                      !.calls = r.calls])

\* the merge loop of addChunkChainingValue: left is stack[stackLen - 2],
\* right is stack[stackLen - 1]
RECURSIVE MergeLoop(_)
MergeLoop(this) ==
  IF ~(this.stackLen > 1) THEN this
  ELSE IF getLevel(this.stackLen - 2) # getLevel(this.stackLen - 1) THEN this
  ELSE MergeLoop(Merged(this, parentOutput(this, this.stack[this.stackLen - 1],
                                           this.stack[this.stackLen])))

\* addChunkChainingValue putting the new CV under the stack, not on top of it
addChunkChainingValueAtBottom(this, cv) ==
  MergeLoop([this EXCEPT !.stack = <<cv>> \o @, !.stackLen = @ + 1])

addChunkChainingValue(this, cv) ==
  MergeLoop([this EXCEPT !.stack = Append(@, cv), !.stackLen = @ + 1])

\* this.addChunkChainingValue(cv), cv being what the compress call r returned
Pushed(this, r) ==
  Strict(<<r>>,
         addChunkChainingValue([this EXCEPT !.calls = r.calls], r.value))

\* The block loop of compressChunk.  s holds the loop's variables: the log,
\* cv (value) and chunkFlags.
\* chunkFlags &= ~CHUNK_START, after cv = compress(...)
ChunkNext(r, flags) ==
  Strict(<<r>>,
         [calls |-> r.calls, value |-> r.value,
          chunkFlags |-> BitClear(flags, CHUNK_START)])

\* cv = compress(cv, blockWords, counter, BLOCK_LEN, chunkFlags)
ChunkCompress(s, flags, chunk, counter, i) ==
  ChunkNext(Invoke(s.calls, s.value,
                   wordsFromBytes(Slice(chunk, i, i + BLOCK_LEN)), counter,
                   BLOCK_LEN, flags),
            flags)

\* the body of the loop at byte i of the chunk
ChunkBlock(s, chunk, counter, i) ==
  ChunkCompress(s, IF i + BLOCK_LEN = CHUNK_LEN
                   THEN BitOr(s.chunkFlags, CHUNK_END) ELSE s.chunkFlags,
                chunk, counter, i)

\* for (let i = from; i < to; i += BLOCK_LEN) { ... }: the iterations of the
\* first half of the range, then those of the second, which keeps the
\* evaluation shallow
RECURSIVE ChunkLoop(_, _, _, _, _)
ChunkLoop(s, chunk, counter, from, to) ==
  Strict(<<s>>,
         IF ~(from < to) THEN s
         ELSE IF to - from <= BLOCK_LEN THEN ChunkBlock(s, chunk, counter, from)
         ELSE ChunkLoop(ChunkLoop(s, chunk, counter, from,
                                  from + ((to - from) \div (2 * BLOCK_LEN)) * BLOCK_LEN),
                        chunk, counter,
                        from + ((to - from) \div (2 * BLOCK_LEN)) * BLOCK_LEN, to))

compressChunk(this, chunk, counter) ==
  Pushed(this, ChunkLoop([calls |-> this.calls, value |-> this.chainingValue,
                          chunkFlags |-> BitOr(this.flags, CHUNK_START)],
                         chunk, counter, 0, CHUNK_LEN))

\* this.block.set(data.slice(offset, offset + take), this.blockLen);
\* this.blockLen += take
Buffer(this, data, offset, take) ==
  [this EXCEPT !.block = SetAt(@, Slice(data, offset, offset + take), this.blockLen),
               !.blockLen = @ + take]

\* if (this.blockLen === BLOCK_LEN) { this.compressBlock(); this.blockLen = 0 }
Flush(this) ==
  IF this.blockLen = BLOCK_LEN THEN [compressBlock(this) EXCEPT !.blockLen = 0]
  ELSE this

\* The three parts of the body of update's loop take and leave s, the object
\* and the offset into data.
\* if (this.blockLen > 0) { ... }: fill the partial block, compress it if full
FillBlock(s, data) ==
  IF ~(s.this.blockLen > 0) THEN s
  ELSE LET take == Min(BLOCK_LEN - s.this.blockLen, Len(data) - s.offset)
       IN  [this |-> Flush(Buffer(s.this, data, s.offset, take)),
            offset |-> s.offset + take]

\* while (offset + CHUNK_LEN <= data.length) { ... }
RECURSIVE FullChunks(_, _)
FullChunks(s, data) ==
  IF ~(s.offset + CHUNK_LEN <= Len(data)) THEN s
  ELSE Strict(<<s>>,
         FullChunks([this |-> [compressChunk(s.this,
                                             Slice(data, s.offset, s.offset + CHUNK_LEN),
                                             s.this.chunkCounter)
                               EXCEPT !.chunkCounter = @ + 1],
                     offset |-> s.offset + CHUNK_LEN],
                    data))

\* Remaining advancing the offset by a whole block, whatever it buffered
RemainingWholeBlock(s, data) ==
  IF ~(s.offset < Len(data)) THEN s
  ELSE [this |-> Buffer(s.this, data, s.offset,
                        Min(Len(data) - s.offset, BLOCK_LEN - s.this.blockLen)),
        offset |-> s.offset + BLOCK_LEN]

\* if (offset < data.length) { ... }: buffer what remains, up to a block
Remaining(s, data) ==
  IF ~(s.offset < Len(data)) THEN s
  ELSE LET want == Min(Len(data) - s.offset, BLOCK_LEN - s.this.blockLen)
       IN  [this |-> Buffer(s.this, data, s.offset, want),
            offset |-> s.offset + want]

\* one iteration of update's outer loop
UpdateBody(s, data) == Remaining(FullChunks(FillBlock(s, data), data), data)

\* while (offset < data.length) { ... }
RECURSIVE UpdateLoop(_, _)
UpdateLoop(s, data) ==
  IF ~(s.offset < Len(data)) THEN s.this
  ELSE Strict(<<s>>, UpdateLoop(UpdateBody(s, data), data))

update(this, data) == UpdateLoop([this |-> this, offset |-> 0], data)

\* Slot with the slice taken from the end of the block: blockBytes.slice(-take)
SlotFromEnd(acc, r, take, offset) ==
  Strict(<<r>>,
         [calls |-> r.calls,
          value |-> SetAt(acc.value,
                          Slice(wordsToBytes(r.value), OUT_LEN - take, OUT_LEN),
                          offset)])

\* output.set(blockBytes.slice(0, take), offset), r being the compress call
\* and acc the log and the output so far
Slot(acc, r, take, offset) ==
  Strict(<<r>>,
         [calls |-> r.calls,
          value |-> SetAt(acc.value, Slice(wordsToBytes(r.value), 0, take), offset)])

\* the counter-mode loop of expandOutput, from output offset `offset`
RECURSIVE ExpandLoop(_, _, _, _, _, _)
ExpandLoop(this, acc, rootOutput, outLen, counter, offset) ==
  IF ~(offset < outLen) THEN acc
  ELSE Strict(<<acc>>,
         ExpandLoop(this,
                    Slot(acc,
                         Invoke(acc.calls, first8Words,
                                SetAt(ZeroWords(16), rootOutput, 0), counter,
                                BLOCK_LEN, BitOr(this.flags, ROOT)),
                         Min(OUT_LEN, outLen - offset), offset),
                    rootOutput, outLen, counter + 1,
                    offset + Min(OUT_LEN, outLen - offset)))

\* return output
Output(this, acc) ==
  Strict(<<acc>>,
         [ok |-> TRUE, error |-> "", value |-> acc.value,
          this |-> [this EXCEPT !.calls = acc.calls]])

\* the first 32 bytes: output.set(rootBytes.slice(0, firstBlock), 0)
FirstBlock(this, rootOutput, outLen) ==
  [calls |-> this.calls,
   value |-> SetAt(Zeros(outLen),
                   Slice(wordsToBytes(rootOutput), 0, Min(OUT_LEN, outLen)), 0)]

\* expandOutput without its counter-mode loop: only the first block is written
expandOutputFirstBlockOnly(this, rootOutput, outLen) ==
  IF outLen < 0
  THEN [ok |-> FALSE, error |-> "RangeError", value |-> <<>>, this |-> this]
  ELSE Output(this, FirstBlock(this, rootOutput, outLen))

\* new Uint8Array(outLen) throws a RangeError for a negative length
expandOutput(this, rootOutput, outLen) ==
  IF outLen < 0
  THEN [ok |-> FALSE, error |-> "RangeError", value |-> <<>>, this |-> this]
  ELSE IF outLen <= OUT_LEN
  THEN Output(this, FirstBlock(this, rootOutput, outLen))
  ELSE Output(this, ExpandLoop(this, FirstBlock(this, rootOutput, outLen),
                               rootOutput, outLen, 1, OUT_LEN))

\* FinalizePending without `this.blockLen = 0`: the block stays pending
FinalizePendingKeepsBlock(this) ==
  IF ~(this.blockLen > 0) THEN this
  ELSE Pushed(this,
              Invoke(this.calls, this.chainingValue,
                     wordsFromBytes(Slice(this.block, 0, this.blockLen)),
                     this.chunkCounter, this.blockLen,
                     BitOr(BitOr(this.flags,
                                 IF this.chunkCounter = 0 THEN CHUNK_START ELSE 0),
                           CHUNK_END)))

\* if (this.blockLen > 0) { ... }: compress the pending block and push its CV
FinalizePending(this) ==
  IF ~(this.blockLen > 0) THEN this
  ELSE [Pushed(this,
               Invoke(this.calls, this.chainingValue,
                      wordsFromBytes(Slice(this.block, 0, this.blockLen)),
                      this.chunkCounter, this.blockLen,
                      BitOr(BitOr(this.flags,
                                  IF this.chunkCounter = 0 THEN CHUNK_START ELSE 0),
                            CHUNK_END)))
        EXCEPT !.blockLen = 0]

\* the loop with the arguments of parentOutput exchanged: the entry to the left
RECURSIVE RootLoopEntryFirst(_, _, _)
RootLoopEntryFirst(this, r, i) ==
  IF ~(i < this.stackLen) THEN r
  ELSE Strict(<<r>>,
              RootLoopEntryFirst(this,
                                 parentOutput([this EXCEPT !.calls = r.calls],
                                              this.stack[i + 1], r.value),
                                 i + 1))

\* for (let i = 1; i < this.stackLen; i++) rootCV = parentOutput(rootCV, stack[i]);
\* r holds the log and rootCV
RECURSIVE RootLoop(_, _, _)
RootLoop(this, r, i) ==
  IF ~(i < this.stackLen) THEN r
  ELSE Strict(<<r>>,
              RootLoop(this,
                       parentOutput([this EXCEPT !.calls = r.calls], r.value,
                                    this.stack[i + 1]),
                       i + 1))

\* return this.expandOutput(rootOutput, outLen), r being the root compression
Expand(this, r, outLen) ==
  Strict(<<r>>,
         expandOutput([this EXCEPT !.calls = r.calls], r.value, outLen))

\* the root compression of the chaining value r holds, then the expansion
RootOutput(this, r, outLen) ==
  Strict(<<r>>,
         Expand(this,
                Invoke(r.calls, first8Words, SetAt(ZeroWords(16), r.value, 0), 0,
                       BLOCK_LEN, BitOr(this.flags, ROOT)),
                outLen))

\* finalize below the pending block: the empty-input case, or the merge of
\* the stack entries
Root(this, outLen) ==
  IF this.chunkCounter = 0 /\ this.stackLen = 0
  THEN RootOutput(this,
                  Invoke(this.calls, this.chainingValue, ZeroWords(16), 0, 0,
                         BitOr(BitOr(this.flags, CHUNK_START), CHUNK_END)),
                  outLen)
  ELSE RootOutput(this,
                  RootLoop(this, [calls |-> this.calls, value |-> this.stack[1]], 1),
                  outLen)

\* finalize(outLen): the object afterwards and the bytes returned, or the error
finalize(this, outLen) == Root(FinalizePending(this), outLen)

(***************************************************************************)
(* The exported functions.  Each returns [ok, error, value, calls].        *)
(***************************************************************************)
Returned(r) ==
  Strict(<<r>>,
         [ok |-> r.ok, error |-> r.error, value |-> r.value, calls |-> r.this.calls])

Thrown(c) == [ok |-> FALSE, error |-> c.error, value |-> <<>>, calls |-> c.calls]

\* hasher.update(input); return hasher.finalize(outLen), c being what the
\* constructor left
Run(c, input, outLen) ==
  Strict(<<c>>,
         IF ~c.ok THEN Thrown(c)
         ELSE Returned(finalize(update(c.this, input), outLen)))

\* new Blake3Hasher(key, flags); hasher.update(input); hasher.finalize(outLen)
HashWith(optKey, flags, input, outLen, log) ==
  Run(constructor(optKey, flags, log), input, outLen)

hash(input, outLen, log) == HashWith(NoKey, 0, input, outLen, log)

keyedHash(key, input, outLen, log) ==
  HashWith(Key(key), KEYED_HASH, input, outLen, log)

\* return wordsFromBytes(contextKey.slice(0, KEY_LEN)): 16 words
ContextKey(r) ==
  Strict(<<r>>,
         [calls |-> r.calls, value |-> wordsFromBytes(Slice(r.value, 0, KEY_LEN))])

deriveKeyFromContext(key, context, log) ==
  ContextKey(HashWith(Key(key), DERIVE_KEY_CONTEXT, context, KEY_LEN, log))

\* the second stage of deriveKey, k being the context key words and the log
Material(k, keyMaterial, outLen) ==
  Strict(<<k>>,
         HashWith(Key(wordsToBytes(Slice(k.value, 0, 8))), DERIVE_KEY_MATERIAL,
                  keyMaterial, outLen, k.calls))

deriveKey(context, keyMaterial, outLen, log) ==
  Material(deriveKeyFromContext(Zeros(KEY_LEN), context, log), keyMaterial, outLen)

createHasher(key, log) == constructor(key, 0, log)

(***************************************************************************)
(* The state machine.  A run is either one call of an exported function    *)
(* (hash, keyedHash, deriveKey) or one session with a hasher object:       *)
(* createHasher, then update and finalize in any order.  `last` records    *)
(* the latest call and what it returned or threw, `history` the calls made *)
(* on the hasher, `calls` every compress call so far.                      *)
(***************************************************************************)
MaxChunks == 3     \* the longest input piece, in chunks
MaxOps == 3        \* update and finalize calls made on the hasher
MaxExactLen == 1   \* the longest input hashed with compress computed
MaxExactOut == 33  \* the longest output asked for with compress computed

\* the most bytes one hasher is fed: the chunks, and a block and a byte more
MaxInput == MaxChunks * CHUNK_LEN + BLOCK_LEN + 1

\* the bytes from position a of the input stream, n of them
Input(a, n) == Array([i \in 1..n |-> (a + i - 1) % 251])

\* lengths of an input: around the block and chunk boundaries
PieceLens ==
  {0, 1, BLOCK_LEN - 1, BLOCK_LEN, CHUNK_LEN - BLOCK_LEN, CHUNK_LEN + 1}
  \cup {k * CHUNK_LEN : k \in 2..MaxChunks}

\* output lengths: a negative one, none, and around one and two slices
OutLens ==
  {-1, 0, 1, OUT_LEN - 1, OUT_LEN, OUT_LEN + 1, 2 * OUT_LEN, 2 * OUT_LEN + 1}

\* output lengths asked of the hasher object: a negative one, the default,
\* and one that takes three compressions and cuts the last slice
StreamOutLens == {-1, OUT_LEN, 2 * OUT_LEN + 1}

\* keys a caller may pass: a byte array of a right or a wrong length
KeyBytes == {Input(7, n) : n \in {0, KEY_LEN - 1, KEY_LEN, KEY_LEN + 1}}

\* what createHasher may be given: no key, or one of the keys
Keys == {NoKey} \cup {Key(k) : k \in KeyBytes}

\* context strings of deriveKey, as their UTF-8 bytes: "" and a longer one
Contexts == {Input(11, n) : n \in {0, 9}}

NoObject ==
  [chainingValue |-> <<>>, flags |-> 0, chunkCounter |-> 0, block |-> <<>>,
   blockLen |-> 0, stack |-> <<>>, stackLen |-> 0]

\* the fields of the object, without the log
Fields(this) ==
  [chainingValue |-> this.chainingValue, flags |-> this.flags,
   chunkCounter |-> this.chunkCounter, block |-> this.block,
   blockLen |-> this.blockLen, stack |-> this.stack, stackLen |-> this.stackLen]

\* the object with the log, as the methods take it
This ==
  [chainingValue |-> hasher.this.chainingValue, flags |-> hasher.this.flags,
   chunkCounter |-> hasher.this.chunkCounter, block |-> hasher.this.block,
   blockLen |-> hasher.this.blockLen, stack |-> hasher.this.stack,
   stackLen |-> hasher.this.stackLen, calls |-> calls]

\* the record of a call: its arguments, its outcome r = [ok, error, value],
\* and the number of compress calls made before it
Op(name, key, context, n, outLen, r, before) ==
  [op |-> name, key |-> key, context |-> context, n |-> n, outLen |-> outLen,
   ok |-> r.ok, error |-> r.error, value |-> r.value, before |-> before]

Done == [ok |-> TRUE, error |-> "", value |-> <<>>]

\* the number of bytes passed to update
RECURSIVE Fed(_)
Fed(h) ==
  IF h = <<>> THEN 0
  ELSE (IF h[1].op = "update" THEN h[1].n ELSE 0) + Fed(Tail(h))

\* no second hasher: the runs of one hasher, or of one exported function
NoPair == [heap |-> <<>>, objects |-> <<>>, histories |-> <<>>, outputs |-> <<>>,
           order |-> <<>>]

Fresh ==
  /\ pair = NoPair
  /\ hasher = [live |-> FALSE, key |-> NoKey, this |-> NoObject]
  /\ calls = <<>>
  /\ history = <<>>
  /\ last = Op("none", NoKey, <<>>, 0, 0, Done, 0)

Init == exact = FALSE /\ Fresh

InitExact == exact = TRUE /\ Fresh

\* what a call of an exported function leaves: the log, and its record
Answer(name, key, context, n, outLen, r) ==
  /\ calls' = r.calls
  /\ last' = Op(name, key, context, n, outLen, r, Len(calls))
  /\ UNCHANGED <<exact, hasher, history, pair>>

\* hash(input, outLen), the input being the first n bytes of the stream
Hash(n, outLen) ==
  /\ ~hasher.live
  /\ last.op = "none"
  /\ Answer("hash", NoKey, <<>>, n, outLen, hash(Input(0, n), outLen, calls))

\* keyedHash(key, input, outLen)
KeyedHash(key, n, outLen) ==
  /\ ~hasher.live
  /\ last.op = "none"
  /\ Answer("keyedHash", Key(key), <<>>, n, outLen,
            keyedHash(key, Input(0, n), outLen, calls))

\* deriveKey(context, keyMaterial, outLen)
DeriveKey(context, n, outLen) ==
  /\ ~hasher.live
  /\ last.op = "none"
  /\ Answer("deriveKey", NoKey, context, n, outLen,
            deriveKey(context, Input(0, n), outLen, calls))

\* what createHasher leaves, c being the constructor's outcome
Created(key, c) ==
  /\ hasher' = IF c.ok THEN [live |-> TRUE, key |-> key, this |-> Fields(c.this)]
               ELSE hasher
  /\ calls' = c.calls
  /\ last' = Op("create", key, <<>>, 0, 0,
                [ok |-> c.ok, error |-> c.error, value |-> <<>>], Len(calls))
  /\ UNCHANGED <<exact, history, pair>>

\* hasher = createHasher(key)
Create(key) ==
  /\ ~hasher.live
  /\ last.op = "none"
  /\ Created(key, createHasher(key, calls))

\* what update leaves, t being the object afterwards
Updated(n, t) ==
  /\ hasher' = [hasher EXCEPT !.this = Fields(t)]
  /\ calls' = t.calls
  /\ last' = Op("update", hasher.key, <<>>, n, 0, Done, Len(calls))
  /\ history' = Append(history, [op |-> "update", n |-> n])
  /\ UNCHANGED <<exact, pair>>

\* hasher.update(input), the input being the next n bytes of the stream
Update(n) ==
  /\ hasher.live
  /\ Len(history) < MaxOps
  /\ Fed(history) + n <= MaxInput
  /\ Updated(n, update(This, Input(Fed(history), n)))

\* what finalize leaves, r being its outcome and the object afterwards
Finalized(outLen, r) ==
  /\ hasher' = [hasher EXCEPT !.this = Fields(r.this)]
  /\ calls' = r.this.calls
  /\ last' = Op("finalize", hasher.key, <<>>, 0, outLen, r, Len(calls))
  /\ history' = Append(history, [op |-> "finalize", n |-> outLen])
  /\ UNCHANGED <<exact, pair>>

\* hasher.finalize(outLen)
Finalize(outLen) ==
  /\ hasher.live
  /\ Len(history) < MaxOps
  /\ Finalized(outLen, finalize(This, outLen))

Next ==
  \/ \E n \in PieceLens, outLen \in OutLens : Hash(n, outLen)
  \/ \E key \in KeyBytes, n \in PieceLens, outLen \in OutLens :
       KeyedHash(key, n, outLen)
  \/ \E context \in Contexts, n \in PieceLens, outLen \in OutLens :
       DeriveKey(context, n, outLen)
  \/ \E key \in Keys : Create(key)
  \/ \E n \in PieceLens : Update(n)
  \/ \E outLen \in StreamOutLens : Finalize(outLen)

Spec == Init /\ [][Next]_vars

\* the exported functions on short inputs, with compress computed
NextExact ==
  \/ \E n \in 0..MaxExactLen, outLen \in 0..MaxExactOut : Hash(n, outLen)
  \/ \E n \in 0..MaxExactLen, outLen \in 0..MaxExactOut :
       KeyedHash(Input(7, KEY_LEN), n, outLen)
  \/ \E n \in 0..MaxExactLen, outLen \in 0..MaxExactOut :
       DeriveKey(Input(11, 9), n, outLen)

SpecExact == InitExact /\ [][NextExact]_vars

(***************************************************************************)
(* Two hashers side by side.  The arrays a hasher changes in place, its    *)
(* block buffer (this.block.set) and its stack (push, pop), are objects of *)
(* a heap: the constructor allocates them and the hasher holds references  *)
(* to them.  The other fields are assigned, never changed in place.        *)
(***************************************************************************)
MaxPairOps == 2    \* update and finalize calls made on each of the two

\* lengths of the inputs of the two: a byte, and a block
PairLens == {1, BLOCK_LEN}

\* where the bytes passed to hasher i start in the stream
Base(i) == 100 * (i - 1)

NoOutput == [ok |-> TRUE, value |-> <<>>]

\* this.block = new Uint8Array(BLOCK_LEN) for every hasher after the first,
\* were the buffer one array of the module
AllocatedSharedBlock(heap, c) ==
  [heap |-> heap \o <<c.this.block, c.this.stack>>,
   object |-> [chainingValue |-> c.this.chainingValue, flags |-> c.this.flags,
               chunkCounter |-> c.this.chunkCounter, blockLen |-> c.this.blockLen,
               stackLen |-> c.this.stackLen,
               block |-> 1, stack |-> Len(heap) + 2]]

\* this.block = new Uint8Array(BLOCK_LEN); this.stack = []: two new arrays of
\* the heap, c being what the constructor made
Allocated(heap, c) ==
  [heap |-> heap \o <<c.this.block, c.this.stack>>,
   object |-> [chainingValue |-> c.this.chainingValue, flags |-> c.this.flags,
               chunkCounter |-> c.this.chunkCounter, blockLen |-> c.this.blockLen,
               stackLen |-> c.this.stackLen,
               block |-> Len(heap) + 1, stack |-> Len(heap) + 2]]

Both(a, b) ==
  [heap |-> b.heap, objects |-> <<a.object, b.object>>,
   histories |-> <<<<>>, <<>>>>, outputs |-> <<NoOutput, NoOutput>>,
   order |-> <<>>]

AndSecond(a) == Both(a, Allocated(a.heap, createHasher(NoKey, <<>>)))

\* createHasher() twice
TwoHashers == AndSecond(Allocated(<<>>, createHasher(NoKey, <<>>)))

\* hasher i as the methods take it: the arrays read through its references
Load(p, i, log) ==
  [chainingValue |-> p.objects[i].chainingValue, flags |-> p.objects[i].flags,
   chunkCounter |-> p.objects[i].chunkCounter,
   block |-> p.heap[p.objects[i].block], blockLen |-> p.objects[i].blockLen,
   stack |-> p.heap[p.objects[i].stack], stackLen |-> p.objects[i].stackLen,
   calls |-> log]

\* what a method of hasher i leaves, t being the object afterwards: its
\* fields assigned, its two arrays changed in place
Stored(p, i, t, call, output) ==
  [heap |-> [p.heap EXCEPT ![p.objects[i].block] = t.block,
                           ![p.objects[i].stack] = t.stack],
   objects |-> [p.objects EXCEPT ![i] =
                  [@ EXCEPT !.chainingValue = t.chainingValue, !.flags = t.flags,
                            !.chunkCounter = t.chunkCounter,
                            !.blockLen = t.blockLen, !.stackLen = t.stackLen]],
   histories |-> [p.histories EXCEPT ![i] = Append(@, call)],
   outputs |-> [p.outputs EXCEPT ![i] = output],
   order |-> Append(p.order, i)]

InitPair ==
  /\ exact = FALSE
  /\ hasher = [live |-> FALSE, key |-> NoKey, this |-> NoObject]
  /\ calls = <<>>
  /\ history = <<>>
  /\ last = Op("none", NoKey, <<>>, 0, 0, Done, 0)
  /\ pair = TwoHashers

UpdatedOn(i, n, t) ==
  /\ pair' = Stored(pair, i, t, [op |-> "update", n |-> n], pair.outputs[i])
  /\ calls' = t.calls
  /\ UNCHANGED <<exact, hasher, history, last>>

\* update of hasher i with the next n bytes of its stream
UpdateOn(i, n) ==
  /\ Len(pair.histories[i]) < MaxPairOps
  /\ UpdatedOn(i, n, update(Load(pair, i, calls),
                            Input(Base(i) + Fed(pair.histories[i]), n)))

FinalizedOn(i, outLen, r) ==
  /\ pair' = Stored(pair, i, r.this, [op |-> "finalize", n |-> outLen],
                    [ok |-> r.ok, value |-> r.value])
  /\ calls' = r.this.calls
  /\ UNCHANGED <<exact, hasher, history, last>>

\* finalize of hasher i
FinalizeOn(i, outLen) ==
  /\ Len(pair.histories[i]) < MaxPairOps
  /\ FinalizedOn(i, outLen, finalize(Load(pair, i, calls), outLen))

NextPair ==
  \/ \E i \in 1..2, n \in PairLens : UpdateOn(i, n)
  \/ \E i \in 1..2 : FinalizeOn(i, OUT_LEN)

SpecPair == InitPair /\ [][NextPair]_vars

(***************************************************************************)
(* The claims.  In opaque mode two outputs are compared in one log, the    *)
(* one of the state: an expected output is computed by running the         *)
(* function on from `calls`, so that a compression both sides make has the *)
(* same name on both.                                                      *)
(***************************************************************************)
\* the hasher has been fed by update calls only, and then finalized once
UpdatesThenFinalize ==
  /\ hasher.live
  /\ last.op = "finalize"
  /\ \A i \in 1..(Len(history) - 1) : history[i].op = "update"

\* the input fed so far, as one byte string
Stream == Input(0, Fed(history))

\* C1: chunking invariance.  However the input x is split into the pieces
\* passed to update, createHasher().update(p1)...update(pk).finalize(n)
\* returns the bytes hash(x, n) returns, for every n >= 0.
C1_ChunkingInvariance ==
  (UpdatesThenFinalize /\ ~hasher.key.present /\ last.outLen >= 0)
    => /\ last.ok
       /\ last.value = hash(Stream, last.outLen, calls).value

\* update(1 byte), update(63 bytes), finalize(): the digest differs from
\* hash of the same 64 bytes
C1_SplitDiffers ==
  /\ hasher.live /\ ~hasher.key.present
  /\ history = <<[op |-> "update", n |-> 1],
                 [op |-> "update", n |-> BLOCK_LEN - 1],
                 [op |-> "finalize", n |-> OUT_LEN]>>
  /\ last.ok
  /\ last.value # hash(Stream, OUT_LEN, calls).value

\* the last call returned bytes: hash, keyedHash, deriveKey or finalize, given
\* a key of the right length if any
Hashed ==
  /\ last.op \in {"hash", "keyedHash", "deriveKey", "finalize"}
  /\ last.key.present => Len(last.key.bytes) = KEY_LEN

\* the words call number k of the log returned
ResultOf(log, k) ==
  IF exact
  THEN compress(log[k].chainingValue, log[k].blockWords, log[k].counter,
                log[k].blockLen, log[k].flags)
  ELSE OpaqueResult(SubSeq(log, 1, k - 1), log[k])

\* the number of 32-byte slices an output of n bytes is cut from: the root
\* compression is made whatever n is
Slices(n) == IF n <= OUT_LEN THEN 1 ELSE (n + OUT_LEN - 1) \div OUT_LEN

\* the call that made slice k (0, 1, ...) of the last output: the root
\* compression and the expansions are the last calls of the log
SliceCall(k) == Len(calls) - Slices(last.outLen) + 1 + k

\* C2: for every input and every output length n >= 0, hash, keyedHash,
\* deriveKey and finalize return exactly n bytes (none for n = 0); slice k of
\* the output is the start of the block compressed with counter k, the last
\* slice cut to what is left of n.
C2_OutputLength ==
  (Hashed /\ last.outLen >= 0)
    => /\ last.ok
       /\ Len(last.value) = last.outLen
       /\ \A k \in 0..(Slices(last.outLen) - 1) :
            /\ calls[SliceCall(k)].counter = k
            /\ HasFlag(calls[SliceCall(k)].flags, ROOT)
            /\ Slice(last.value, k * OUT_LEN, (k + 1) * OUT_LEN)
                 = Slice(wordsToBytes(ResultOf(calls, SliceCall(k))), 0,
                         Min(OUT_LEN, last.outLen - k * OUT_LEN))

\* deriveKey of the longest input returned 65 bytes: two slices and one byte
C2_Witness ==
  /\ last.op = "deriveKey"
  /\ last.n = MaxChunks * CHUNK_LEN
  /\ last.outLen = 2 * OUT_LEN + 1
  /\ last.ok
  /\ Len(last.value) = 2 * OUT_LEN + 1

\* C3: the prefix law of the extendable output.  For 0 <= n <= m, hash(x, n)
\* is the first n bytes of hash(x, m).
C3_PrefixLaw ==
  (last.op = "hash" /\ last.ok)
    => \A n \in {k \in OutLens : 0 <= k /\ k <= last.outLen} :
         hash(Input(0, last.n), n, calls).value = Slice(last.value, 0, n)

\* hash of a chunk and a byte returned 65 bytes, of which hash(x, 33) is the
\* first 33
C3_Witness ==
  /\ last.op = "hash"
  /\ last.n = CHUNK_LEN + 1
  /\ last.outLen = 2 * OUT_LEN + 1
  /\ Len(last.value) = 2 * OUT_LEN + 1
  /\ hash(Input(0, last.n), OUT_LEN + 1, calls).value
       = Slice(last.value, 0, OUT_LEN + 1)

\* the BLAKE3 digest of the empty input, af1349b9...e41f3262
CanonicalEmptyDigest ==
  << 175, 19, 73, 185, 245, 249, 161, 166, 160, 64, 77, 234, 54, 220, 201, 73,
     155, 203, 37, 201, 173, 193, 18, 183, 204, 154, 147, 202, 228, 31, 50, 98 >>

\* what hash("") returns: aed3807e...2de9e857
ComputedEmptyDigest ==
  << 174, 211, 128, 126, 77, 115, 124, 207, 212, 158, 21, 72, 65, 88, 126, 160,
     81, 212, 7, 61, 185, 33, 118, 35, 138, 34, 152, 79, 45, 233, 232, 87 >>

\* C4: hash("") with the default output length is the canonical BLAKE3
\* digest of the empty input, byte for byte.
C4_EmptyDigest ==
  (last.op = "hash" /\ last.n = 0 /\ last.outLen = OUT_LEN)
    => last.value = CanonicalEmptyDigest

\* hash("") was computed, compress and all, and returned other bytes
C4_Computed ==
  /\ exact
  /\ last.op = "hash" /\ last.n = 0 /\ last.outLen = OUT_LEN
  /\ last.ok
  /\ last.value = ComputedEmptyDigest
  /\ last.value # CanonicalEmptyDigest

\* the call was given a key of a wrong length
BadKey == last.key.present /\ Len(last.key.bytes) # KEY_LEN

\* C5: keyedHash(key, ...) and createHasher(key) with a key that is not 32
\* bytes long, an empty one too, throw at construction: no compress call has
\* been made, no hasher exists, and the outcome is the same whatever the
\* input and the output length.
C5_KeyLength ==
  (last.op \in {"create", "keyedHash"} /\ BadKey)
    => /\ ~last.ok
       /\ last.error = "Key must be 32 bytes"
       /\ Len(calls) = last.before
       /\ ~hasher.live
       /\ \A n \in PieceLens, outLen \in OutLens :
            keyedHash(last.key.bytes, Input(0, n), outLen, calls)
              = [ok |-> FALSE, error |-> last.error, value |-> <<>>,
                 calls |-> calls]

\* keyedHash with an empty key and the longest input threw
C5_Witness ==
  /\ last.op = "keyedHash"
  /\ last.key = Key(<<>>)
  /\ last.n = MaxChunks * CHUNK_LEN
  /\ ~last.ok
  /\ calls = <<>>

\* C6: a negative output length makes finalize, and hash, keyedHash and
\* deriveKey through it, fail before any compress call: before the pending
\* block is compressed, before anything is pushed on the CV stack and before
\* the root compression.
C6_OutLenChecked ==
  (Hashed /\ last.outLen < 0)
    => /\ ~last.ok
       /\ Len(calls) = last.before
       /\ (last.op = "finalize" /\ Len(history) = 2 /\ history[1].op = "update")
            => hasher.this.stackLen = 0

\* update(1 byte) then finalize(-1): the RangeError came after the pending
\* block was compressed and pushed and the root was compressed
C6_FailsLate ==
  /\ hasher.live
  /\ history = <<[op |-> "update", n |-> 1], [op |-> "finalize", n |-> -1]>>
  /\ ~last.ok /\ last.error = "RangeError"
  /\ Len(calls) = last.before + 2
  /\ hasher.this.stackLen = 1
  /\ hasher.this.blockLen = 0

\* only update has been called on the hasher
OnlyUpdates ==
  /\ hasher.live
  /\ \A i \in 1..Len(history) : history[i].op = "update"

\* C7: when update returns, whatever the hasher's state and the input's
\* length were, 0 <= blockLen < 64: no whole block is left in the buffer.
C7_BufferBelowBlock ==
  (hasher.live /\ last.op = "update")
    => /\ 0 <= hasher.this.blockLen
       /\ hasher.this.blockLen < BLOCK_LEN

\* update(64 bytes) on a new hasher returned with the whole block buffered and
\* no compress call made
C7_FullBlockLeft ==
  /\ hasher.live
  /\ history = <<[op |-> "update", n |-> BLOCK_LEN]>>
  /\ hasher.this.blockLen = BLOCK_LEN
  /\ calls = <<>>

\* the call a chaining value came from: its number in the log (opaque mode)
CallOf(cv) == 0 - cv[1][1]

\* the chunks a chaining value covers: one for a chunk's CV, those of its two
\* children for a parent's
RECURSIVE Covers(_, _)
Covers(log, id) ==
  IF HasFlag(log[id].flags, PARENT)
  THEN Covers(log, CallOf(SubSeq(log[id].blockWords, 1, 8)))
       + Covers(log, CallOf(SubSeq(log[id].blockWords, 9, 16)))
  ELSE 1

\* the chunks each stack entry covers, bottom to top
StackSizes ==
  [i \in 1..hasher.this.stackLen |-> Covers(calls, CallOf(hasher.this.stack[i]))]

RECURSIVE Sum(_)
Sum(q) == IF q = <<>> THEN 0 ELSE Head(q) + Sum(Tail(q))

IsPowerOfTwo(n) == \E e \in 0..30 : n = 2 ^ e

\* C8: after update calls that completed n chunks, the stack entries, bottom
\* to top, cover distinct powers of two of chunks in strictly decreasing order
\* that sum to n.
C8_StackShape ==
  OnlyUpdates
    => /\ Len(hasher.this.stack) = hasher.this.stackLen
       /\ \A i \in 1..hasher.this.stackLen : IsPowerOfTwo(StackSizes[i])
       /\ \A i \in 1..(hasher.this.stackLen - 1) : StackSizes[i] > StackSizes[i + 1]
       /\ Sum(StackSizes) = hasher.this.chunkCounter

\* update(2 chunks) left two entries of one chunk each, and made no parent
\* compression
C8_TwoSingles ==
  /\ OnlyUpdates
  /\ history = <<[op |-> "update", n |-> 2 * CHUNK_LEN]>>
  /\ hasher.this.chunkCounter = 2
  /\ StackSizes = <<1, 1>>
  /\ \A k \in 1..Len(calls) : ~HasFlag(calls[k].flags, PARENT)

RECURSIVE Log2Floor(_)
Log2Floor(n) == IF n <= 1 THEN 0 ELSE 1 + Log2Floor(n \div 2)

\* C9: after update has pushed n >= 1 chunk chaining values, the stack holds
\* at most floor(log2(n)) + 1 entries.
C9_StackDepth ==
  (OnlyUpdates /\ hasher.this.chunkCounter >= 1)
    => hasher.this.stackLen <= Log2Floor(hasher.this.chunkCounter) + 1

\* update(3 chunks) left three entries, one more than floor(log2(3)) + 1
C9_ThreeEntries ==
  /\ OnlyUpdates
  /\ history = <<[op |-> "update", n |-> 3 * CHUNK_LEN]>>
  /\ hasher.this.chunkCounter = 3
  /\ hasher.this.stackLen = 3

\* at most one update, the first call, and then finalize calls only
FinalizesAfterOneUpdate ==
  /\ hasher.live
  /\ last.op = "finalize"
  /\ \A i \in 2..Len(history) : history[i].op = "finalize"

\* what the one-shot function of the hasher's kind returns for the stream
OneShot(outLen) ==
  IF hasher.key.present
  THEN keyedHash(hasher.key.bytes, Stream, outLen, calls)
  ELSE hash(Stream, outLen, calls)

\* C10: finalize may be repeated.  After update(x), each of finalize(n1),
\* finalize(n2), ... with no update in between returns hash(x, ni)
\* (keyedHash(key, x, ni) for a hasher made with a key).
C10_FinalizeRepeatable ==
  (FinalizesAfterOneUpdate /\ last.outLen >= 0)
    => /\ last.ok
       /\ last.value = OneShot(last.outLen).value

\* update(a chunk and a byte), finalize(), finalize(65): the second finalize
\* returned hash(x, 65), whose first 32 bytes the first one returned
C10_Witness ==
  /\ hasher.live /\ ~hasher.key.present
  /\ history = <<[op |-> "update", n |-> CHUNK_LEN + 1],
                 [op |-> "finalize", n |-> OUT_LEN],
                 [op |-> "finalize", n |-> 2 * OUT_LEN + 1]>>
  /\ last.ok
  /\ last.value = hash(Stream, 2 * OUT_LEN + 1, calls).value

\* the calls made on the hasher so far are the named ones, in order
Called(ops) ==
  /\ hasher.live
  /\ Len(history) = Len(ops)
  /\ \A i \in 1..Len(ops) : history[i].op = ops[i]

\* the fields a new hasher of the same kind has after update of n bytes
AfterUpdate(n) ==
  Fields(update(createHasher(hasher.key, <<>>).this, Input(0, n)))

\* r, what a finalize(n) call made now returns, is what hash returns for the
\* bytes passed to update so far
ReturnsHash(r, n) ==
  Strict(<<r>>, r.ok /\ r.value = hash(Stream, n, r.this.calls).value)

\* C11: finalize is pure with respect to the hasher.  It leaves the running
\* CV, the chunk counter, the block buffer and its length, the flags and the
\* CV stack as update left them, so that update(x); finalize(); update(y);
\* finalize(n) returns hash(x ++ y, n).
C11_FinalizePure ==
  /\ Called(<<"update", "finalize">>)
       => hasher.this = AfterUpdate(history[1].n)
  /\ (Called(<<"update", "finalize", "update">>) /\ ~hasher.key.present)
       => \A n \in {OUT_LEN, 2 * OUT_LEN + 1} :
            ReturnsHash(finalize(This, n), n)

\* update(1 byte), finalize(), update(1 byte): finalize pushed the first byte
\* as a chunk of its own and emptied the buffer, so the second byte is a
\* second chunk, and finalize(32) does not return hash of the two bytes
C11_FinalizeMutates ==
  /\ Called(<<"update", "finalize", "update">>)
  /\ ~hasher.key.present
  /\ history[1].n = 1 /\ history[2].n = OUT_LEN /\ history[3].n = 1
  /\ hasher.this.stackLen = 1 /\ hasher.this.blockLen = 1
  /\ AfterUpdate(2).stackLen = 0 /\ AfterUpdate(2).blockLen = 2
  /\ ~ReturnsHash(finalize(This, OUT_LEN), OUT_LEN)

\* the compress calls of stage 1 of deriveKey: those of the context hasher
ContextCalls == {k \in 1..Len(calls) : HasFlag(calls[k].flags, DERIVE_KEY_CONTEXT)}

\* C12: stage 1 of deriveKey hashes the context label from the IV constants
\* as the initial chaining value, not from an all-zero key nor a key of the
\* caller, with DERIVE_KEY_CONTEXT set and KEYED_HASH not set on its
\* compressions.
C12_ContextStage ==
  last.op = "deriveKey"
    => /\ ContextCalls # {}
       /\ calls[1].chainingValue = first8Words
       /\ \A k \in ContextCalls : ~HasFlag(calls[k].flags, KEYED_HASH)

\* deriveKey of a 9-byte context: the context's one block was compressed from
\* eight zero words, the all-zero key, with KEYED_HASH set
C12_ZeroKeyed ==
  /\ last.op = "deriveKey" /\ last.ok
  /\ Len(last.context) = 9
  /\ calls[1].blockLen = 9
  /\ calls[1].chainingValue = ZeroWords(8)
  /\ calls[1].flags = BitOr(BitOr(DERIVE_KEY_CONTEXT, KEYED_HASH),
                            BitOr(CHUNK_START, CHUNK_END))
  /\ \A k \in ContextCalls : HasFlag(calls[k].flags, KEYED_HASH)

\* the eight little-endian words of a 32-byte key
KeyWords(key) ==
  Array([i \in 1..8 |-> W(key[4 * i - 1] + 256 * key[4 * i],
                          key[4 * i - 3] + 256 * key[4 * i - 2])])

\* the calls of the log were made for a 32-byte key: by keyedHash, or by
\* update and finalize of a hasher made with the key
Keyed ==
  \/ last.op = "keyedHash" /\ Len(last.key.bytes) = KEY_LEN
  \/ hasher.live /\ hasher.key.present

KeyOf == IF hasher.live THEN hasher.key.bytes ELSE last.key.bytes

\* the calls of the log were made without a key: by hash, or by a hasher
\* made by createHasher()
Unkeyed ==
  \/ last.op = "hash"
  \/ hasher.live /\ ~hasher.key.present

\* C13: a hasher made with a 32-byte key starts from the key's eight
\* little-endian words as its running CV, and every compress call it makes
\* (chunk, parent, root, output expansion) has KEYED_HASH set; one made
\* without a key by hash() or createHasher() never makes a compress call with
\* KEYED_HASH set.
C13_KeyedMode ==
  /\ Keyed
       => /\ \A k \in 1..Len(calls) : HasFlag(calls[k].flags, KEYED_HASH)
          /\ Len(calls) >= 1 => calls[1].chainingValue = KeyWords(KeyOf)
          /\ (hasher.live /\ history = <<>>)
               => Slice(hasher.this.chainingValue, 0, 8) = KeyWords(KeyOf)
  /\ Unkeyed
       => \A k \in 1..Len(calls) : ~HasFlag(calls[k].flags, KEYED_HASH)

\* keyedHash of two chunks, 65 bytes asked for: chunk, parent, root and
\* expansion compressions were made, all with KEYED_HASH
C13_Witness ==
  /\ last.op = "keyedHash" /\ last.ok
  /\ last.n = 2 * CHUNK_LEN /\ last.outLen = 2 * OUT_LEN + 1
  /\ \E k \in 1..Len(calls) : HasFlag(calls[k].flags, CHUNK_END)
  /\ \E k \in 1..Len(calls) : HasFlag(calls[k].flags, PARENT)
  /\ \E k \in 1..Len(calls) : HasFlag(calls[k].flags, ROOT) /\ calls[k].counter = 2
  /\ \A k \in 1..Len(calls) : HasFlag(calls[k].flags, KEYED_HASH)
  /\ calls[1].chainingValue = KeyWords(last.key.bytes)

\* what finalize leaves of a hasher run alone
Finished(r) ==
  Strict(<<r>>, [this |-> r.this, output |-> [ok |-> r.ok, value |-> r.value]])

\* call k of the calls h made on hasher i, on a hasher run alone
Step(s, h, k, i) ==
  IF h[k].op = "update"
  THEN [this |-> update(s.this, Input(Base(i) + Fed(SubSeq(h, 1, k - 1)), h[k].n)),
        output |-> s.output]
  ELSE Finished(finalize(s.this, h[k].n))

\* the calls h from the k-th on, made on a hasher run alone
RECURSIVE Replay(_, _, _, _)
Replay(s, h, k, i) ==
  IF k > Len(h) THEN s
  ELSE Replay(Strict(<<s>>, Step(s, h, k, i)), h, k + 1, i)

\* hasher i had its calls been made on it with no other hasher about
Alone(i) ==
  Replay([this |-> createHasher(NoKey, calls).this, output |-> NoOutput],
         pair.histories[i], 1, i)

\* hasher i is as s, a hasher run alone, is: its last output and its fields
SameAs(s, i) ==
  Strict(<<s>>,
         /\ pair.outputs[i] = s.output
         /\ Fields(Load(pair, i, calls)) = Fields(s.this))

\* C14: hasher instances are independent.  However the update and finalize
\* calls on two hashers are interleaved, each returns what it returns when
\* its calls are made alone, and no call changes the other's buffer, counter
\* or stack.
C14_Independent ==
  pair # NoPair => \A i \in 1..2 : SameAs(Alone(i), i)

\* update and finalize of the two made in turn: each returned a digest, not
\* the same, and each is as if run alone
C14_Witness ==
  /\ pair # NoPair
  /\ pair.order = <<1, 2, 1, 2>>
  /\ \A i \in 1..2 :
       /\ pair.histories[i] = <<[op |-> "update", n |-> 1],
                                [op |-> "finalize", n |-> OUT_LEN]>>
       /\ pair.outputs[i].ok /\ Len(pair.outputs[i].value) = OUT_LEN
       /\ pair.outputs[i] = Alone(i).output
  /\ pair.outputs[1] # pair.outputs[2]

\* a compression of a block of input: neither a parent's nor the root's
Leaf(c) == ~HasFlag(c.flags, PARENT) /\ ~HasFlag(c.flags, ROOT)

LeafCalls == {k \in 1..Len(calls) : Leaf(calls[k])}

\* the bytes of input compressed by the calls before call k
RECURSIVE Offset(_, _)
Offset(log, k) ==
  IF k <= 1 THEN 0
  ELSE Offset(log, k - 1) + (IF Leaf(log[k - 1]) THEN log[k - 1].blockLen ELSE 0)

\* the log is that of one stream of input, hashed to its end: by hash or
\* keyedHash, or by update calls and then one finalize
OneStream ==
  \/ last.op = "hash"
  \/ last.op = "keyedHash" /\ Len(last.key.bytes) = KEY_LEN
  \/ UpdatesThenFinalize

\* C15: in every chunk, however its bytes came through update and finalize,
\* the first block compression and no other carries CHUNK_START, and the last
\* and no other carries CHUNK_END; so for chunks after chunk 0 and for blocks
\* compressed through the pending-block buffer.
C15_ChunkFlags ==
  OneStream
    => \A k \in LeafCalls :
         /\ HasFlag(calls[k].flags, CHUNK_START)
              <=> Offset(calls, k) % CHUNK_LEN = 0
         /\ HasFlag(calls[k].flags, CHUNK_END)
              <=> \/ (Offset(calls, k) + calls[k].blockLen) % CHUNK_LEN = 0
                  \/ \A j \in LeafCalls : j <= k

\* hash of a chunk and a byte: the byte, the one block of chunk 1, was
\* compressed with CHUNK_END and without CHUNK_START
C15_SecondChunkNoStart ==
  /\ last.op = "hash" /\ last.ok
  /\ last.n = CHUNK_LEN + 1
  /\ \E k \in LeafCalls :
       /\ Offset(calls, k) = CHUNK_LEN
       /\ calls[k].blockLen = 1 /\ calls[k].counter = 1
       /\ calls[k].flags = CHUNK_END

\* C16: after update calls that delivered L bytes in all, however split,
\* chunkCounter is floor(L / 1024), the number of completed chunks, and the
\* chaining value of each completed chunk has been pushed into the tree once,
\* those of chunks compressed block by block through the buffer too.
C16_ChunkCount ==
  OnlyUpdates
    => /\ hasher.this.chunkCounter = Fed(history) \div CHUNK_LEN
       /\ Sum(StackSizes) = Fed(history) \div CHUNK_LEN

\* update(1 byte), update(a chunk and a byte): 1026 bytes went in, one at a
\* block at a time, the counter is still 0 and nothing was pushed
C16_NoChunkCounted ==
  /\ Called(<<"update", "update">>)
  /\ history[1].n = 1 /\ history[2].n = CHUNK_LEN + 1
  /\ Fed(history) \div CHUNK_LEN = 1
  /\ hasher.this.chunkCounter = 0
  /\ hasher.this.stackLen = 0
  /\ Len(calls) = 16
  /\ \A k \in 1..Len(calls) : calls[k].counter = 0 /\ calls[k].blockLen = BLOCK_LEN

\* the key's words, or the IV's: the running CV the constructor sets
InitialCV == IF Keyed THEN KeyWords(KeyOf) ELSE first8Words

\* C17: the first compression of every chunk, reached through the whole-chunk
\* path, the block-by-block path or finalize, takes the key/IV words fixed at
\* construction as its chaining value, never the result of compressing
\* earlier input.
C17_ChunkStartsFromKey ==
  (OnlyUpdates \/ OneStream)
    => \A k \in LeafCalls :
         Offset(calls, k) % CHUNK_LEN = 0 => calls[k].chainingValue = InitialCV

\* update(a block), update(two chunks): the block at byte 1024, the first of
\* chunk 1, was compressed from the result of the compression before it
C17_StartsFromRunningCV ==
  /\ Called(<<"update", "update">>)
  /\ history[1].n = BLOCK_LEN /\ history[2].n = 2 * CHUNK_LEN
  /\ \E k \in LeafCalls :
       /\ Offset(calls, k) = CHUNK_LEN
       /\ calls[k].chainingValue = Named(k - 1)
       /\ calls[k].chainingValue # InitialCV

ParentCalls == {k \in 1..Len(calls) : HasFlag(calls[k].flags, PARENT)}

\* the flags the constructor sets for hash and createHasher(), and for
\* keyedHash and createHasher(key)
ModeFlags == IF Keyed THEN KEYED_HASH ELSE 0

\* words are the chaining value an earlier call than call k returned
EarlierCV(words, k) == \E j \in 1..(k - 1) : words = ResultOf(calls, j)

\* C18: every parent compression, in the merging of update and in finalize,
\* after whatever update calls, has flags = mode flags | PARENT, counter 0,
\* block length 64, the left CV in words 0-7 of its block and the right CV in
\* words 8-15, and the key/IV words fixed at construction as its chaining
\* value.
C18_ParentCompression ==
  (Keyed \/ Unkeyed)
    => \A k \in ParentCalls :
         /\ calls[k].flags = BitOr(ModeFlags, PARENT)
         /\ calls[k].counter = 0
         /\ calls[k].blockLen = BLOCK_LEN
         /\ EarlierCV(SubSeq(calls[k].blockWords, 1, 8), k)
         /\ EarlierCV(SubSeq(calls[k].blockWords, 9, 16), k)
         /\ calls[k].chainingValue = InitialCV

\* update(a block), update(a chunk and a byte), finalize(): the parent of the
\* two chunk CVs was compressed from the result of the first block's
\* compression, which update had stored as the running CV
C18_ParentFromRunningCV ==
  /\ Called(<<"update", "update", "finalize">>)
  /\ ~hasher.key.present
  /\ history[1].n = BLOCK_LEN /\ history[2].n = CHUNK_LEN + 1
  /\ last.ok
  /\ \E k \in ParentCalls :
       /\ calls[k].flags = PARENT /\ calls[k].counter = 0
       /\ calls[k].chainingValue = Named(1)
       /\ calls[k].chainingValue # first8Words

\* C19: no compress call of any operation has PARENT set together with
\* CHUNK_START or CHUNK_END.  (ROOT and KEYED_HASH may go with either kind.)
C19_ParentExcludesChunkFlags ==
  \A k \in 1..Len(calls) :
    HasFlag(calls[k].flags, PARENT)
      => /\ ~HasFlag(calls[k].flags, CHUNK_START)
         /\ ~HasFlag(calls[k].flags, CHUNK_END)

\* a keyed hasher fed two chunks and a byte and finalized: block compressions
\* with chunk flags and parent compressions, all with KEYED_HASH, and a root
\* compression, in one log
C19_Witness ==
  /\ hasher.live /\ hasher.key.present
  /\ last.op = "finalize" /\ last.ok
  /\ Fed(history) = 2 * CHUNK_LEN + 1
  /\ Cardinality(ParentCalls) = 2
  /\ \A k \in ParentCalls : calls[k].flags = BitOr(KEYED_HASH, PARENT)
  /\ \E k \in LeafCalls : calls[k].flags = BitOr(KEYED_HASH, CHUNK_START)
  /\ \E k \in LeafCalls : calls[k].flags = BitOr(KEYED_HASH, CHUNK_END)
  /\ \E k \in 1..Len(calls) : calls[k].flags = BitOr(KEYED_HASH, ROOT)

\* the last call took finalize's empty-input path: it compressed a block of
\* length 0
TookEmptyPath ==
  \E k \in (last.before + 1)..Len(calls) :
    /\ calls[k].blockLen = 0
    /\ calls[k].blockWords = ZeroWords(16)
    /\ calls[k].counter = 0
    /\ HasFlag(calls[k].flags, CHUNK_START) /\ HasFlag(calls[k].flags, CHUNK_END)

\* C20: finalize takes its empty-input path (an all-zero block of length 0
\* compressed with CHUNK_START|CHUNK_END and counter 0) if and only if no
\* byte has been passed to update since construction; a hasher that has taken
\* in data and whose buffer happens to be empty never takes it.
C20_EmptyPath ==
  /\ (hasher.live /\ last.op = "finalize") => (TookEmptyPath <=> Fed(history) = 0)
  /\ last.op \in {"hash", "keyedHash"} => (TookEmptyPath => last.n = 0)
  /\ (last.op = "hash" /\ last.n = 0) => TookEmptyPath

\* update(1 byte), update(63 bytes), finalize(): 64 bytes went in, the full
\* buffer was compressed by update, and finalize compressed an empty block
\* from the result
C20_EmptyPathAfterData ==
  /\ Called(<<"update", "update", "finalize">>)
  /\ history[1].n = 1 /\ history[2].n = BLOCK_LEN - 1
  /\ Fed(history) = BLOCK_LEN
  /\ last.before = 1
  /\ TookEmptyPath
  /\ calls[2].blockLen = 0
  /\ calls[2].chainingValue = Named(1)

\* the root compression of the last call: its first call with ROOT set
RootCall ==
  CHOOSE k \in (last.before + 1)..Len(calls) :
    /\ HasFlag(calls[k].flags, ROOT)
    /\ \A j \in (last.before + 1)..(k - 1) : ~HasFlag(calls[j].flags, ROOT)

\* the final node: the chaining value the root compression was given
FinalNode == SubSeq(calls[RootCall].blockWords, 1, 8)

OnStack(cv) == \E i \in 1..Len(hasher.this.stack) : hasher.this.stack[i] = cv

\* the stack entries under the node cv, left to right
RECURSIVE Frontier(_)
Frontier(cv) ==
  IF OnStack(cv) \/ ~HasFlag(calls[CallOf(cv)].flags, PARENT) THEN <<cv>>
  ELSE Frontier(SubSeq(calls[CallOf(cv)].blockWords, 1, 8))
       \o Frontier(SubSeq(calls[CallOf(cv)].blockWords, 9, 16))

\* finalize was called and found or pushed at least one chaining value
FinalizedStack ==
  /\ hasher.live /\ last.op = "finalize"
  /\ hasher.this.stackLen >= 1

Rooted ==
  \/ last.op = "hash"
  \/ last.op = "keyedHash" /\ Len(last.key.bytes) = KEY_LEN
  \/ hasher.live /\ last.op = "finalize"

\* the compression that made the final node
NodeCall == calls[CallOf(FinalNode)]

\* C22: the ROOT compression reuses the final node's own inputs: its
\* chaining value, its message block (the chunk's last block for a lone chunk,
\* left CV then right CV for a tree), its counter and its block length, with
\* ROOT added to the node's own flags.  It is not one more compression, made
\* of the final node's output CV.
C22_RootReusesNode ==
  Rooted
    => /\ calls[RootCall].chainingValue = NodeCall.chainingValue
       /\ calls[RootCall].blockWords = NodeCall.blockWords
       /\ calls[RootCall].counter = NodeCall.counter
       /\ calls[RootCall].blockLen = NodeCall.blockLen
       /\ calls[RootCall].flags = BitOr(NodeCall.flags, ROOT)

\* hash of one byte: the byte's block was compressed with block length 1 and
\* CHUNK_START|CHUNK_END, and the root compression is a second one, of the
\* eight words the first returned and eight zero words, of block length 64
C22_RootIsAnotherCompression ==
  /\ last.op = "hash" /\ last.ok /\ last.n = 1
  /\ RootCall = 2
  /\ calls[1].blockLen = 1 /\ calls[1].flags = BitOr(CHUNK_START, CHUNK_END)
  /\ calls[2].blockWords = Named(1) \o ZeroWords(8)
  /\ calls[2].blockLen = BLOCK_LEN /\ calls[2].flags = ROOT
  /\ calls[2].chainingValue = first8Words

\* the compress call whose result is slice k of the output of the last call
SliceOf(k) == calls[RootCall + k]

\* C23: for outLen > 32, bytes [32k, 32k + 32) of the output, k >= 1, come
\* from a compression with ROOT set whose chaining value, message block,
\* block length and flags are those of the root compression that gave bytes
\* [0, 32), and whose counter is k; the last slice is cut to what remains.
C23_SameBlockNextCounter ==
  (Rooted /\ last.outLen > OUT_LEN)
    => /\ last.ok
       /\ Len(calls) = RootCall + Slices(last.outLen) - 1
       /\ \A k \in 1..(Slices(last.outLen) - 1) :
            /\ SliceOf(k).counter = k
            /\ SliceOf(k).chainingValue = SliceOf(0).chainingValue
            /\ SliceOf(k).blockLen = SliceOf(0).blockLen
            /\ SliceOf(k).flags = SliceOf(0).flags
            /\ SliceOf(k).blockWords = SliceOf(0).blockWords
            /\ Slice(last.value, k * OUT_LEN, (k + 1) * OUT_LEN)
                 = Slice(wordsToBytes(ResultOf(calls, RootCall + k)), 0,
                         Min(OUT_LEN, last.outLen - k * OUT_LEN))

\* hash of one byte, 65 bytes asked for: the two further compressions were
\* given the output of the root compression as their block, not its block
C23_BlockIsRootOutput ==
  /\ last.op = "hash" /\ last.ok /\ last.n = 1
  /\ last.outLen = 2 * OUT_LEN + 1
  /\ Len(calls) = 4 /\ RootCall = 2
  /\ \A k \in 1..2 :
       /\ SliceOf(k).counter = k /\ SliceOf(k).flags = ROOT
       /\ SliceOf(k).blockWords = Named(2) \o ZeroWords(8)
       /\ SliceOf(k).blockWords # SliceOf(0).blockWords

\* C24: compress starts from the state whose words 0-7 are the chaining
\* value, words 8-11 the first four IV constants, words 12 and 13 the low and
\* high 32 bits of the counter, word 14 the block length and word 15 the flags.
C24_InitialState ==
  \A k \in 1..Len(calls) :
    /\ SubSeq(calls[k].state, 1, 8) = calls[k].chainingValue
    /\ SubSeq(calls[k].state, 9, 12) = SubSeq(IV, 1, 4)
    /\ calls[k].state[13] = Word(calls[k].counter)
    /\ calls[k].state[14] = Word(0)
    /\ calls[k].state[15] = Word(calls[k].blockLen)
    /\ calls[k].state[16] = Word(calls[k].flags)

\* hash of one byte: of the chaining value (the IV) only words 0-3 are in the
\* state; words 4-11 are the eight IV constants, so words 4-7 are IV[0..3]
\* and not the chaining value's words 4-7, and words 8-11 are IV[4..7]
C24_IVFromWordFour ==
  /\ last.op = "hash" /\ last.ok /\ last.n = 1
  /\ calls[1].chainingValue = first8Words
  /\ SubSeq(calls[1].state, 1, 4) = SubSeq(calls[1].chainingValue, 1, 4)
  /\ SubSeq(calls[1].state, 5, 12) = IV
  /\ SubSeq(calls[1].state, 5, 8) # SubSeq(calls[1].chainingValue, 5, 8)
  /\ SubSeq(calls[1].state, 9, 12) # SubSeq(IV, 1, 4)
  /\ calls[1].state[15] = Word(1)
  /\ calls[1].state[16] = Word(BitOr(CHUNK_START, CHUNK_END))

\* the sixteen message words a round passes to g, in the order it passes them:
\* blockWords[MSG_PERMUTATION[0]], ..., blockWords[MSG_PERMUTATION[15]], in
\* every round alike
Consumed(blockWords, round) ==
  Array([k \in 1..16 |-> MsgWord(blockWords, k - 1)])

\* the message permutation applied once to sixteen words
Permuted(m) == Array([k \in 1..16 |-> m[MSG_PERMUTATION[k] + 1]])

\* the message permutation applied r times
RECURSIVE Scheduled(_, _)
Scheduled(m, r) == IF r = 0 THEN m ELSE Permuted(Scheduled(m, r - 1))

\* C25: round r (0..6) of a compression consumes the message words in the
\* order given by the message permutation applied r times: round 0 takes the
\* block as it is, and nothing is permuted after round 6.
C25_MessageSchedule ==
  \A k \in 1..Len(calls) : \A round \in 0..6 :
    Consumed(calls[k].blockWords, round) = Scheduled(calls[k].blockWords, round)

\* hash of 63 bytes: the block goes through the permutation once before
\* round 0 already, and the rounds after it take that same order again
C25_SameOrderEveryRound ==
  /\ last.op = "hash" /\ last.ok /\ last.n = BLOCK_LEN - 1
  /\ calls[1].blockWords = wordsFromBytes(Input(0, BLOCK_LEN - 1) \o <<0>>)
  /\ Consumed(calls[1].blockWords, 0) = Scheduled(calls[1].blockWords, 1)
  /\ Consumed(calls[1].blockWords, 0) # calls[1].blockWords
  /\ \A round \in 1..6 :
       Consumed(calls[1].blockWords, round) = Consumed(calls[1].blockWords, 0)
  /\ \A round \in 2..6 :
       Consumed(calls[1].blockWords, round) # Scheduled(calls[1].blockWords, round)

\* C26: compress returns eight words when called for a chunk block or a
\* parent node, and the full sixteen-word state when called with ROOT.
C26_ResultWidth ==
  \A k \in 1..Len(calls) :
    Len(ResultOf(calls, k)) = IF HasFlag(calls[k].flags, ROOT) THEN 16 ELSE 8

\* hash of one byte, computed: the root compression returned eight words,
\* and so did the chunk's compression
C26_RootReturnsEight ==
  /\ exact
  /\ last.op = "hash" /\ last.ok /\ last.n = 1 /\ last.outLen = OUT_LEN
  /\ Len(calls) = 2
  /\ ~HasFlag(calls[1].flags, ROOT) /\ Len(ResultOf(calls, 1)) = 8
  /\ HasFlag(calls[2].flags, ROOT) /\ Len(ResultOf(calls, 2)) = 8
  /\ last.value = wordsToBytes(ResultOf(calls, 2))

\* the compress call that returned entry i (1 is the bottom) of the CV stack
PushCall(i) == CallOf(hasher.this.stack[i])

\* the CVs pushed so far: one per chunk compressed whole, and the pending
\* block's when finalize found one
Pushes ==
  hasher.this.chunkCounter
    + (IF last.op = "finalize" /\ last.before < Len(calls)
          /\ Leaf(calls[last.before + 1]) /\ calls[last.before + 1].blockLen > 0
       THEN 1 ELSE 0)

EntersChunk(k) ==
  /\ Leaf(calls[k])
  /\ HasFlag(calls[k].flags, CHUNK_START)
  /\ ~HasFlag(calls[k].flags, CHUNK_END)

\* C28: update takes its whole-chunk path (compressChunk) only at a chunk
\* boundary: the bytes absorbed before it are a multiple of 1024, all of them
\* compressed and none buffered, the running CV is still the key/IV, and the
\* compression before it, if any, closed a chunk: it was not a block of the
\* current chunk going through the pending-block buffer.
C28_ChunkBoundary ==
  (OnlyUpdates \/ UpdatesThenFinalize)
    => \A k \in 1..Len(calls) :
         EntersChunk(k)
           => /\ Offset(calls, k) % CHUNK_LEN = 0
              /\ calls[k].chainingValue = InitialCV
              /\ k > 1 => HasFlag(calls[k - 1].flags, CHUNK_END)

\* update(1 byte), update(two chunks): the second call fills the buffer to a
\* block, compresses it, and takes the whole-chunk path for the 1024 bytes
\* from byte 64 on, starting from what the block's compression returned
C28_EnteredAfterABlock ==
  /\ Called(<<"update", "update">>)
  /\ history[1].n = 1 /\ history[2].n = 2 * CHUNK_LEN
  /\ ~HasFlag(calls[1].flags, CHUNK_START) /\ ~HasFlag(calls[1].flags, CHUNK_END)
  /\ calls[1].blockLen = BLOCK_LEN
  /\ EntersChunk(2)
  /\ Offset(calls, 2) = BLOCK_LEN
  /\ calls[2].chainingValue = Named(1)
  /\ calls[2].chainingValue # InitialCV
  /\ hasher.this.chunkCounter = 1 /\ hasher.this.stackLen = 1
  /\ PushCall(1) = 17

\* the values offset has each time the condition of update's outer loop is
\* evaluated, from the loop's state s on; the last is the one it ends with
RECURSIVE Offsets(_, _)
Offsets(s, data) ==
  IF ~(s.offset < Len(data)) THEN <<s.offset>>
  ELSE Strict(<<s>>, <<s.offset>> \o Offsets(UpdateBody(s, data), data))

\* every iteration moved the offset on by a byte at least, and the loop ended
\* with the offset at the end of the n bytes
Consumes(t, n) ==
  /\ \A i \in 1..(Len(t) - 1) : t[i] < t[i + 1]
  /\ t[Len(t)] = n

\* the offsets of update called now with the next n bytes of the stream
OffsetsNow(n) == Offsets([this |-> This, offset |-> 0], Input(Fed(history), n))

\* C29: update ends, whatever the length of its input and the state of the
\* hasher it is called on, a buffer holding a whole block included: each
\* iteration of its outer loop consumes one byte of input at least, and when
\* it returns the offset is the length of the input.
C29_UpdateProgress ==
  (hasher.live /\ Len(history) < MaxOps)
    => \A n \in PieceLens : Consumes(OffsetsNow(n), n)

\* update(64 bytes) left the buffer full; a call with 960 bytes now starts by
\* compressing the buffer without taking a byte, buffers a block in each of
\* its fifteen iterations, and ends with offset 960
C29_Witness ==
  /\ Called(<<"update">>) /\ history[1].n = BLOCK_LEN
  /\ hasher.this.blockLen = BLOCK_LEN
  /\ FillBlock([this |-> This, offset |-> 0],
               Input(BLOCK_LEN, CHUNK_LEN - BLOCK_LEN)).offset = 0
  /\ Len(OffsetsNow(CHUNK_LEN - BLOCK_LEN)) = 16
  /\ OffsetsNow(CHUNK_LEN - BLOCK_LEN)[2] = BLOCK_LEN
  /\ OffsetsNow(2 * CHUNK_LEN) = <<0, 2 * CHUNK_LEN>>
  /\ Consumes(OffsetsNow(CHUNK_LEN - BLOCK_LEN), CHUNK_LEN - BLOCK_LEN)

\* the blocks update compressed through the pending-block buffer.  update and
\* it alone compresses without CHUNK_END: every block of the buffer, and the
\* first fifteen blocks of every chunk it compressed whole
BufferBlocks ==
  Cardinality({k \in LeafCalls : ~HasFlag(calls[k].flags, CHUNK_END)})
    - 15 * hasher.this.chunkCounter

\* the bytes of a block, and zeros after them up to the length of a block
Padded(bytes) == SetAt(Zeros(BLOCK_LEN), bytes, 0)

\* call k compressed the bytes of the input that follow those the leaf
\* compressions before it took
InOrder(k) ==
  calls[k].blockWords
    = wordsFromBytes(Padded(Input(Offset(calls, k), calls[k].blockLen)))

\* the buffer holds the last blockLen bytes supplied
BufferIsTail ==
  Slice(hasher.this.block, 0, hasher.this.blockLen)
    = Input(Fed(history) - hasher.this.blockLen, hasher.this.blockLen)

\* C30: byte conservation.  Whenever update returns, 64 x (the blocks
\* compressed through the pending-block buffer) + 1024 x (the chunks
\* compressed whole) + blockLen is the number of bytes supplied so far, and
\* the bytes came to the compressions and to the buffer in the order of the
\* input: none is dropped, duplicated or reordered, however the input was cut
\* into update calls.
C30_ByteConservation ==
  (hasher.live /\ last.op = "update")
    => /\ BLOCK_LEN * BufferBlocks + CHUNK_LEN * hasher.this.chunkCounter
            + hasher.this.blockLen = Fed(history)
       /\ \A k \in LeafCalls : InOrder(k)
       /\ BufferIsTail

\* update(1 byte), finalize(), update(1 byte): finalize compressed the byte
\* of the buffer and emptied it, so that of the two bytes supplied the
\* second update accounts for one
C30_ByteUnaccounted ==
  /\ Called(<<"update", "finalize", "update">>)
  /\ history[1].n = 1 /\ history[3].n = 1
  /\ Fed(history) = 2
  /\ BufferBlocks = 0 /\ hasher.this.chunkCounter = 0
  /\ hasher.this.blockLen = 1
  /\ hasher.this.stackLen = 1
  /\ calls[1].blockLen = 1 /\ HasFlag(calls[1].flags, CHUNK_END)

====
